---- MODULE Spec2Model ----
(***************************************************************************)
(* Model of VerifyDBController (dbController.ts) of alphaid-bot-verify: a  *)
(* cache-backed table of guessed verification levels, one controller       *)
(* instance over one table.  Every `await` on the database is a point      *)
(* where the call is suspended: the call is then a task in `tasks`, the    *)
(* database executes its query in a step of its own and the call resumes   *)
(* in a later step.  A promise nobody awaits is a detached task.           *)
(***************************************************************************)
EXTENDS Integers, Sequences, FiniteSets, Bags, TLC

\* ---- interfaces.ts: const enum VerificationLevel ----
NONE == 0
LOW == 1
MEDIUM == 2
HIGH == 3
HIGHEST == 4
SKIPPED == 5

VerificationLevel == {NONE, LOW, MEDIUM, HIGH, HIGHEST, SKIPPED}

\* Guild.verificationLevel of discord.js: 0 (disabled) .. 4
GuildLevels == {NONE, LOW, MEDIUM, HIGH, HIGHEST}

\* ---- bounds ----
MaxOps == 3
MaxInFlight == 2

\* member.roles.size: the @everyone role alone, or one role more
RoleCounts == {1, 2}

GuildIds == {"g1"}
MemberIds == {"m1"}

\* A GuildMember as far as the controller reads it: guild.id and id.
Members == [guild : GuildIds, id : MemberIds]

NoMember == [guild |-> "", id |-> ""]

VARIABLES
    initialized,   \* this[INITIALIZED]
    localCache,    \* this[LOCAL_CACHE]: key -> level, a partial map
    tableExists,   \* whether the table TABLE_NAME exists in the database
    rows,          \* the rows of the table, in insertion order
    guildLevel,    \* guild.id -> member.guild.verificationLevel
    tasks,         \* bag of suspended calls (awaiting the database)
    nops,          \* number of get/store/purge calls and guild updates made so far
    call,          \* the call the application made in the last step, if any
    ret,           \* what the last step handed to a caller, if anything
    emitted,       \* the events the last step emitted, in order
    settled,       \* key -> the store/purge/skipped lookup that completed last, no call made since
    latest,        \* key -> the level this instance wrote or read last for the key
    heard          \* the listeners the last step's emit invoked, and the one that threw

vars == <<initialized, localCache, tableExists, rows, guildLevel, tasks, nops,
          call, ret, emitted, settled, latest, heard>>

\* ---- helpers ----

getLocalStorageKey(member) == <<member.guild, member.id>>

Keys == {getLocalStorageKey(m) : m \in Members}

\* a guard that lets every call through
mustBeInitializedUnchecked == TRUE

\* mustBeInitialized throws unless controller[INITIALIZED]
mustBeInitialized == initialized

\* an init() that never sees the instance as initialized
isInitializedNever == FALSE

\* init: `if (this[INITIALIZED]) throw`
isInitialized == initialized

\* Object.create(null): no key is set
EmptyCache == [k \in {} |-> NONE]

\* this[LOCAL_CACHE][key]: <<v>> when the key is set, <<>> (undefined) otherwise
checkInLocalStorage(key) ==
    IF key \in DOMAIN localCache THEN <<localCache[key]>> ELSE <<>>

\* `localValue != null`: anything but null/undefined, so 0 is a hit
CacheHit(localValue) == localValue # <<>>

\* this[LOCAL_CACHE][key] = level
storeLocally(key, level) ==
    [k \in (DOMAIN localCache) \cup {key} |-> IF k = key THEN level ELSE localCache[k]]

\* delete this[LOCAL_CACHE][key]
deleteLocally(key) ==
    [k \in (DOMAIN localCache) \ {key} |-> localCache[k]]

\* DB.schema.hasTable(tableName), used as a boolean
hasTable == tableExists

\* the where({guildId, memberId}) filter
Matches(row, member) == row.guildId = member.guild /\ row.memberId = member.id

MatchingRows(member) == SelectSeq(rows, LAMBDA r : Matches(r, member))

\* .where({...}).first(): the first matching row, <<>> (null) when none
QueryFirst(member) ==
    IF MatchingRows(member) = <<>> THEN <<>> ELSE <<Head(MatchingRows(member))>>

\* .insert({guildId, memberId, level}): always a new row
InsertRow(member, level) ==
    Append(rows, [guildId |-> member.guild, memberId |-> member.id, level |-> level])

\* .where({...}).delete(): every matching row
DeleteRows(member) == SelectSeq(rows, LAMBDA r : ~Matches(r, member))

\* "verified" for every level that reaches the guild's
ShouldEmitVerifiedAtLeast(member, level) == level >= guildLevel[member.guild]

\* storeLevel: `member.guild.verificationLevel === level`
ShouldEmitVerified(member, level) == guildLevel[member.guild] = level

VerifiedEvent(member, level) == [event |-> "verified", member |-> member, level |-> level]

PurgedEvent(member) == [event |-> "purged", member |-> member]

\* the callbacks subscribed with onVerified / onPurged, in subscription order
Listeners == <<"l1", "l2">>

\* the listener that throws when invoked: "" when none does
Throwers == {""} \cup {Listeners[i] : i \in 1..Len(Listeners)}

\* no emit in this step
NoHeard == [invoked |-> <<>>, threw |-> ""]

\* EventEmitter.emit: the listeners are invoked in subscription order, in the
\* emitting call; what a listener throws leaves emit at once, to its caller
Emit(thrower) ==
    IF thrower = "" THEN [invoked |-> Listeners, threw |-> ""]
    ELSE LET i == CHOOSE j \in 1..Len(Listeners) : Listeners[j] = thrower
         IN [invoked |-> SubSeq(Listeners, 1, i), threw |-> thrower]

\* ---- tasks and results ----

\* no store or purge of the application completed last for a key
NoneSettled == [op |-> "none", level |-> NONE, twice |-> FALSE, here |-> FALSE]

\* storeLevel(member, level) completed; twice: so did a storeLevel right before it
StoreSettled(level, after) ==
    [op |-> "store", level |-> level, twice |-> (after.op = "store"), here |-> TRUE]

\* purgeLevel(member) completed
PurgeSettled == [op |-> "purge", level |-> NONE, twice |-> FALSE, here |-> TRUE]

\* getVerificationLevel(member) answered SKIPPED for the member's roles
SkippedSettled == [op |-> "skipped", level |-> NONE, twice |-> FALSE, here |-> TRUE]

\* a call suspended at its await: `after` is what had completed for its key
\* when the call was made; `handler`: the lookup is awaited by _onMessage
Task(op, member, level, roles, detached, after) ==
    [op |-> op, member |-> member, level |-> level, roles |-> roles, pc |-> "db",
     ok |-> TRUE, data |-> <<>>, detached |-> detached, after |-> after,
     handler |-> FALSE]

NoCall == [op |-> "", member |-> NoMember, level |-> NONE, roles |-> 0]

Called(op, member, level, roles) ==
    [op |-> op, member |-> member, level |-> level, roles |-> roles]

NoRet ==
    [kind |-> "none", op |-> "", member |-> NoMember, level |-> NONE, roles |-> 0,
     val |-> <<>>, err |-> "", path |-> "", detached |-> FALSE, after |-> NoneSettled]

Returned(op, member, level, roles, val, path, detached, after) ==
    [kind |-> "return", op |-> op, member |-> member, level |-> level, roles |-> roles,
     val |-> val, err |-> "", path |-> path, detached |-> detached, after |-> after]

Thrown(op, member, level, roles, err, detached, after) ==
    [kind |-> "throw", op |-> op, member |-> member, level |-> level, roles |-> roles,
     val |-> <<>>, err |-> err, path |-> "", detached |-> detached, after |-> after]

\* what had completed for the member's key, before this step
After(member) == settled[getLocalStorageKey(member)]

\* a call on the member is made: nothing has completed since
Forget(member) == [settled EXCEPT ![getLocalStorageKey(member)] = NoneSettled]

Remember(member, what) == [settled EXCEPT ![getLocalStorageKey(member)] = what]

\* no level was written or read for any key by this instance
NoneLatest == [k \in Keys |-> <<>>]

\* the query of a lookup answered with dbData: a record's level is read
Observed(member, dbData) ==
    IF dbData = <<>> THEN latest
    ELSE [latest EXCEPT ![getLocalStorageKey(member)] = <<dbData[1].level>>]

\* storeLevel(member, level) completed
Written(member, level) == [latest EXCEPT ![getLocalStorageKey(member)] = <<level>>]

\* purgeLevel(member) completed
Erased(member) == [latest EXCEPT ![getLocalStorageKey(member)] = <<>>]

Suspended == BagToSet(tasks)

RECURSIVE CountCalls(_)
CountCalls(S) ==
    IF S = {} THEN 0
    ELSE LET t == CHOOSE x \in S : TRUE
         IN (IF t.detached THEN 0 ELSE CopiesIn(t, tasks)) + CountCalls(S \ {t})

\* calls of the application that have not settled yet
InFlight == CountCalls(Suspended)

CanCall(limit) == InFlight < limit

\* get/store/purge calls and guild updates are counted, and at most MaxOps
\* are made
CanOperate(limit) == nops < MaxOps /\ CanCall(limit)

Suspend(t) == tasks (+) SetToBag({t})

Advance(t, u) == (tasks (-) SetToBag({t})) (+) SetToBag({u})

Settle(t) == tasks (-) SetToBag({t})

\* a storeLevel that does not look at the level
StoreLevelErrorAnyLevel(level) ==
    IF ~mustBeInitialized THEN "NotInitialized" ELSE ""

\* storeLevel before its await: the error it throws, "" when it goes on
StoreLevelError(level) ==
    IF ~mustBeInitialized THEN "NotInitialized"
    ELSE IF level = SKIPPED THEN "InvalidTier"
    ELSE ""

\* a storeLevel that hands no second insert for a member while one is pending
StoreLevelSyncOnce(bag, member, level, detached, after) ==
    IF StoreLevelError(level) # "" THEN bag
    ELSE IF \E u \in BagToSet(bag) : u.op = "store" /\ u.member = member THEN bag
    ELSE bag (+) SetToBag({Task("store", member, level, 0, detached, after)})

\* storeLevel up to its await: the insert is handed to the database and the
\* call is suspended (a call that throws suspends nothing)
StoreLevelSync(bag, member, level, detached, after) ==
    IF StoreLevelError(level) # "" THEN bag
    ELSE bag (+) SetToBag({Task("store", member, level, 0, detached, after)})

\* ---- constructor ----

Init ==
    /\ initialized = FALSE
    /\ localCache = EmptyCache
    /\ tableExists \in BOOLEAN
    /\ rows = <<>>
    /\ guildLevel \in [GuildIds -> GuildLevels]
    /\ tasks = EmptyBag
    /\ nops = 0
    /\ call = NoCall
    /\ ret = NoRet
    /\ emitted = <<>>
    /\ settled = [k \in Keys |-> NoneSettled]
    /\ latest = NoneLatest
    /\ heard = NoHeard

\* new VerifyDBController(tableName) over the same table, the old instance
\* having nothing pending (Verify.init builds one per plugin start)
Construct ==
    /\ tasks = EmptyBag
    /\ initialized' = FALSE
    /\ localCache' = EmptyCache
    /\ call' = NoCall
    /\ ret' = NoRet
    /\ emitted' = <<>>
    /\ heard' = NoHeard
    /\ settled' = [k \in Keys |-> [settled[k] EXCEPT !.here = FALSE]]
    /\ latest' = NoneLatest
    /\ UNCHANGED <<tableExists, rows, guildLevel, tasks, nops>>

\* the guild's verificationLevel is changed: member.guild is the client's live
\* Guild object, which every later read of the controller sees
GuildUpdate ==
    \E guild \in GuildIds, level \in GuildLevels :
        /\ nops < MaxOps
        /\ nops' = nops + 1
        /\ level # guildLevel[guild]
        /\ guildLevel' = [guildLevel EXCEPT ![guild] = level]
        /\ call' = NoCall
        /\ ret' = NoRet
        /\ emitted' = <<>>
        /\ heard' = NoHeard
        /\ UNCHANGED <<initialized, localCache, tableExists, rows, tasks, settled, latest>>

\* ---- init() ----

InitCall(limit) ==
    /\ CanCall(limit)
    /\ call' = Called("init", NoMember, NONE, 0)
    /\ emitted' = <<>>
    /\ heard' = NoHeard
    /\ IF isInitialized
       THEN /\ ret' = Thrown("init", NoMember, NONE, 0, "AlreadyInitialized", FALSE, NoneSettled)
            /\ UNCHANGED <<initialized, tasks>>
       ELSE IF ~hasTable
       THEN /\ tasks' = Suspend(Task("init", NoMember, NONE, 0, FALSE, NoneSettled))
            /\ ret' = NoRet
            /\ UNCHANGED initialized
       ELSE /\ initialized' = TRUE
            /\ ret' = Returned("init", NoMember, NONE, 0, <<>>, "found", FALSE, NoneSettled)
            /\ UNCHANGED tasks
    /\ UNCHANGED <<localCache, tableExists, rows, guildLevel, nops, settled, latest>>

\* the database executes createTable: it fails when the table is there
\* already, and may fail for reasons of its own
CreateTableDb ==
    \E t \in Suspended, ok \in BOOLEAN :
        /\ t.op = "init" /\ t.pc = "db"
        /\ ok => ~tableExists
        /\ tableExists' = (tableExists \/ ok)
        /\ tasks' = Advance(t, [t EXCEPT !.pc = "resume", !.ok = ok])
        /\ call' = NoCall
        /\ ret' = NoRet
        /\ emitted' = <<>>
        /\ heard' = NoHeard
        /\ UNCHANGED <<initialized, localCache, rows, guildLevel, nops, settled, latest>>

\* a catch that logs the error and goes on
CreateTableFailedSwallowed(t) == FALSE

\* init: `catch (err) { log(...); throw err; }` around the awaited createTable
CreateTableFailed(t) == ~t.ok

InitResume ==
    \E t \in Suspended :
        /\ t.op = "init" /\ t.pc = "resume"
        /\ tasks' = Settle(t)
        /\ call' = NoCall
        /\ emitted' = <<>>
        /\ heard' = NoHeard
        /\ IF CreateTableFailed(t)
           THEN /\ ret' = Thrown("init", NoMember, NONE, 0, "StorageFailure", FALSE, NoneSettled)
                /\ UNCHANGED initialized
           ELSE /\ initialized' = TRUE
                /\ ret' = Returned("init", NoMember, NONE, 0, <<>>, "created", FALSE, NoneSettled)
        /\ UNCHANGED <<localCache, tableExists, rows, guildLevel, nops, settled, latest>>

\* ---- getVerificationLevel(member) ----

\* a role test that counts the @everyone role
HasRolesAtLeastOne(roles) == roles >= 1

\* `member.roles.size > 1`
HasRoles(roles) == roles > 1

\* a lookup that goes on whatever the guild asks for
VerificationDisabledNever(member) == FALSE

\* `member.guild.verificationLevel === 0`
VerificationDisabled(member) == guildLevel[member.guild] = 0

\* the synchronous part, up to the await on the query
GetCall(limit) ==
    \E member \in Members, roles \in RoleCounts :
        LET localKey == getLocalStorageKey(member)
            localValue == checkInLocalStorage(localKey)
            Done(val, path) ==
                Returned("get", member, NONE, roles, <<val>>, path, FALSE, After(member))
        IN
        /\ CanOperate(limit)
        /\ nops' = nops + 1
        /\ call' = Called("get", member, NONE, roles)
        /\ emitted' = <<>>
        /\ heard' = NoHeard
        /\ IF ~mustBeInitialized
           THEN /\ ret' = Thrown("get", member, NONE, roles, "NotInitialized", FALSE,
                                 After(member))
                /\ UNCHANGED tasks
           ELSE IF VerificationDisabled(member)
           THEN /\ ret' = Done(NONE, "disabled")
                /\ UNCHANGED tasks
           ELSE IF HasRoles(roles)
           THEN /\ ret' = Done(SKIPPED, "skipped")
                /\ UNCHANGED tasks
           ELSE IF CacheHit(localValue)
           THEN /\ ret' = Done(localValue[1], "cache")
                /\ UNCHANGED tasks
           ELSE /\ tasks' = Suspend(Task("get", member, NONE, roles, FALSE, After(member)))
                /\ ret' = NoRet
        /\ settled' = IF mustBeInitialized /\ ~VerificationDisabled(member) /\ HasRoles(roles)
                      THEN Remember(member, SkippedSettled)
                      ELSE Forget(member)
        /\ UNCHANGED <<initialized, localCache, tableExists, rows, guildLevel, latest>>

\* the database executes the query (or fails)
GetDb ==
    \E t \in Suspended, ok \in BOOLEAN :
        /\ t.op = "get" /\ t.pc = "db"
        /\ tasks' = Advance(t, [t EXCEPT !.pc = "resume", !.ok = ok,
                                         !.data = IF ok THEN QueryFirst(t.member) ELSE <<>>])
        /\ latest' = IF ok THEN Observed(t.member, QueryFirst(t.member)) ELSE latest
        /\ call' = NoCall
        /\ ret' = NoRet
        /\ emitted' = <<>>
        /\ heard' = NoHeard
        /\ UNCHANGED <<initialized, localCache, tableExists, rows, guildLevel, nops, settled>>

\* a default of LOW
DefaultLevelLow == LOW

\* `this.storeLevel(member, 0); return 0;`
DefaultLevel == NONE

\* the call resumes with dbData: a hit fills the cache; a miss calls
\* this.storeLevel(member, 0) without awaiting it and returns 0
GetResume ==
    \E t \in Suspended :
        LET dbData == t.data
            Done(val, path) ==
                Returned("get", t.member, NONE, t.roles, <<val>>, path, FALSE, t.after)
        IN
        /\ t.op = "get" /\ t.pc = "resume" /\ ~t.handler
        /\ call' = NoCall
        /\ emitted' = <<>>
        /\ heard' = NoHeard
        /\ IF ~t.ok
           THEN /\ ret' = Thrown("get", t.member, NONE, t.roles, "StorageFailure", FALSE,
                                 t.after)
                /\ tasks' = Settle(t)
                /\ UNCHANGED localCache
           ELSE IF dbData # <<>>
           THEN /\ localCache' = storeLocally(getLocalStorageKey(t.member), dbData[1].level)
                /\ ret' = Done(dbData[1].level, "db")
                /\ tasks' = Settle(t)
           ELSE /\ tasks' = StoreLevelSync(Settle(t), t.member, DefaultLevel, TRUE, NoneSettled)
                /\ ret' = Done(DefaultLevel, "default")
                /\ UNCHANGED localCache
        /\ UNCHANGED <<initialized, tableExists, rows, guildLevel, nops, settled, latest>>

\* ---- storeLevel(member, level) ----

StoreCall(limit) ==
    \E member \in Members, level \in VerificationLevel :
        /\ CanOperate(limit)
        /\ nops' = nops + 1
        /\ call' = Called("store", member, level, 0)
        /\ settled' = Forget(member)
        /\ emitted' = <<>>
        /\ heard' = NoHeard
        /\ tasks' = StoreLevelSync(tasks, member, level, FALSE, After(member))
        /\ ret' = IF StoreLevelError(level) # ""
                  THEN Thrown("store", member, level, 0, StoreLevelError(level), FALSE,
                              After(member))
                  ELSE NoRet
        /\ UNCHANGED <<initialized, localCache, tableExists, rows, guildLevel, latest>>

\* the database executes the insert (or fails)
StoreDb ==
    \E t \in Suspended, ok \in BOOLEAN :
        /\ t.op = "store" /\ t.pc = "db"
        /\ rows' = IF ok THEN InsertRow(t.member, t.level) ELSE rows
        /\ tasks' = Advance(t, [t EXCEPT !.pc = "resume", !.ok = ok])
        /\ call' = NoCall
        /\ ret' = NoRet
        /\ emitted' = <<>>
        /\ heard' = NoHeard
        /\ UNCHANGED <<initialized, localCache, tableExists, guildLevel, nops, settled, latest>>

\* a rejected insert or delete that the call does not notice
WriteFailedSwallowed(t) == FALSE

\* the awaited insert or delete rejected: the call throws at its await, before
\* the lines that touch the cache and emit
WriteFailed(t) == ~t.ok

\* the call resumes: cache the level, emit "verified" when it is the guild's
StoreResume ==
    \E t \in Suspended, thrower \in Throwers :
        LET emits == ~WriteFailed(t) /\ ShouldEmitVerified(t.member, t.level) IN
        /\ t.op = "store" /\ t.pc = "resume"
        /\ ~emits => thrower = ""
        /\ tasks' = Settle(t)
        /\ call' = NoCall
        /\ IF WriteFailed(t)
           THEN /\ ret' = Thrown("store", t.member, t.level, 0, "StorageFailure", t.detached,
                                 t.after)
                /\ emitted' = <<>>
                /\ heard' = NoHeard
                /\ UNCHANGED <<localCache, settled, latest>>
           ELSE /\ localCache' = storeLocally(getLocalStorageKey(t.member), t.level)
                /\ latest' = Written(t.member, t.level)
                /\ emitted' = IF emits THEN <<VerifiedEvent(t.member, t.level)>> ELSE <<>>
                /\ heard' = IF emits THEN Emit(thrower) ELSE NoHeard
                /\ ret' = IF thrower # ""
                          THEN Thrown("store", t.member, t.level, 0, "ListenerError",
                                      t.detached, t.after)
                          ELSE Returned("store", t.member, t.level, 0, <<>>, "", t.detached,
                                        t.after)
                /\ settled' = IF t.detached \/ thrower # "" THEN settled
                              ELSE Remember(t.member, StoreSettled(t.level, t.after))
        /\ UNCHANGED <<initialized, tableExists, rows, guildLevel, nops>>

\* ---- purgeLevel(member) ----

PurgeCall(limit) ==
    \E member \in Members :
        /\ CanOperate(limit)
        /\ nops' = nops + 1
        /\ call' = Called("purge", member, NONE, 0)
        /\ settled' = Forget(member)
        /\ emitted' = <<>>
        /\ heard' = NoHeard
        /\ IF ~mustBeInitialized
           THEN /\ ret' = Thrown("purge", member, NONE, 0, "NotInitialized", FALSE,
                                 After(member))
                /\ UNCHANGED tasks
           ELSE /\ tasks' = Suspend(Task("purge", member, NONE, 0, FALSE, After(member)))
                /\ ret' = NoRet
        /\ UNCHANGED <<initialized, localCache, tableExists, rows, guildLevel, latest>>

\* the database executes the delete (or fails)
PurgeDb ==
    \E t \in Suspended, ok \in BOOLEAN :
        /\ t.op = "purge" /\ t.pc = "db"
        /\ rows' = IF ok THEN DeleteRows(t.member) ELSE rows
        /\ tasks' = Advance(t, [t EXCEPT !.pc = "resume", !.ok = ok])
        /\ call' = NoCall
        /\ ret' = NoRet
        /\ emitted' = <<>>
        /\ heard' = NoHeard
        /\ UNCHANGED <<initialized, localCache, tableExists, guildLevel, nops, settled, latest>>

\* the call resumes: drop the cache entry, emit "purged"
PurgeResume ==
    \E t \in Suspended, thrower \in Throwers :
        /\ t.op = "purge" /\ t.pc = "resume"
        /\ WriteFailed(t) => thrower = ""
        /\ tasks' = Settle(t)
        /\ call' = NoCall
        /\ IF WriteFailed(t)
           THEN /\ ret' = Thrown("purge", t.member, NONE, 0, "StorageFailure", FALSE, t.after)
                /\ emitted' = <<>>
                /\ heard' = NoHeard
                /\ UNCHANGED <<localCache, settled, latest>>
           ELSE /\ localCache' = deleteLocally(getLocalStorageKey(t.member))
                /\ latest' = Erased(t.member)
                /\ emitted' = <<PurgedEvent(t.member)>>
                /\ heard' = Emit(thrower)
                /\ ret' = IF thrower # ""
                          THEN Thrown("purge", t.member, NONE, 0, "ListenerError", FALSE,
                                      t.after)
                          ELSE Returned("purge", t.member, NONE, 0, <<>>, "", FALSE, t.after)
                /\ settled' = IF thrower # "" THEN settled
                              ELSE Remember(t.member, PurgeSettled)
        /\ UNCHANGED <<initialized, tableExists, rows, guildLevel, nops>>

\* ---- Verify._onMessage(message) ----

\* `storedVerification === SKIPPED || storedVerification === message.guild.verificationLevel`
verifiedAlready(member, storedVerification) ==
    \/ storedVerification = <<SKIPPED>>
    \/ storedVerification = <<guildLevel[member.guild]>>

\* the handler up to `await this.getVerificationLevel(member)`, and beyond it
\* when the lookup needs no query: a member not verified already gets
\* storeLevel(member, guildVerificationLevel), which is not awaited
OnMessage(limit) ==
    \E member \in Members, roles \in RoleCounts :
        LET guildVerificationLevel == guildLevel[member.guild]
            localValue == checkInLocalStorage(getLocalStorageKey(member))
            storedVerification ==
                IF ~isInitialized THEN <<>>
                ELSE IF HasRoles(roles) THEN <<SKIPPED>>
                ELSE localValue
            Done(path) ==
                Returned("message", member, guildVerificationLevel, roles, storedVerification,
                         path, FALSE, After(member))
        IN
        /\ CanOperate(limit)
        /\ nops' = nops + 1
        /\ call' = Called("message", member, guildVerificationLevel, roles)
        /\ settled' = Forget(member)
        /\ emitted' = <<>>
        /\ heard' = NoHeard
        /\ IF guildVerificationLevel = 0
           THEN /\ ret' = Done("disabled")
                /\ UNCHANGED tasks
           ELSE IF isInitialized /\ ~HasRoles(roles) /\ ~CacheHit(localValue)
           THEN /\ tasks' = Suspend([Task("get", member, guildVerificationLevel, roles, FALSE,
                                           After(member)) EXCEPT !.handler = TRUE])
                /\ ret' = NoRet
           ELSE IF verifiedAlready(member, storedVerification)
           THEN /\ ret' = Done("verified")
                /\ UNCHANGED tasks
           ELSE /\ tasks' = StoreLevelSync(tasks, member, guildVerificationLevel, TRUE,
                                           NoneSettled)
                /\ ret' = Done("store")
        /\ UNCHANGED <<initialized, localCache, tableExists, rows, guildLevel, latest>>

\* the awaited lookup resumes as in GetResume and the handler goes on: a lookup
\* that threw is logged, and the level is stored all the same
OnMessageResume ==
    \E t \in Suspended :
        LET dbData == t.data
            storedVerification ==
                IF ~t.ok THEN <<>>
                ELSE IF dbData # <<>> THEN <<dbData[1].level>>
                ELSE <<DefaultLevel>>
            lookedUp ==
                IF t.ok /\ dbData = <<>>
                THEN StoreLevelSync(Settle(t), t.member, DefaultLevel, TRUE, NoneSettled)
                ELSE Settle(t)
            Done(path) ==
                Returned("message", t.member, t.level, t.roles, storedVerification, path,
                         FALSE, t.after)
        IN
        /\ t.op = "get" /\ t.pc = "resume" /\ t.handler
        /\ call' = NoCall
        /\ emitted' = <<>>
        /\ heard' = NoHeard
        /\ localCache' = IF t.ok /\ dbData # <<>>
                         THEN storeLocally(getLocalStorageKey(t.member), dbData[1].level)
                         ELSE localCache
        /\ IF t.ok /\ verifiedAlready(t.member, storedVerification)
           THEN /\ tasks' = lookedUp
                /\ ret' = Done("verified")
           ELSE /\ tasks' = StoreLevelSync(lookedUp, t.member, t.level, TRUE, NoneSettled)
                /\ ret' = Done("store")
        /\ UNCHANGED <<initialized, tableExists, rows, guildLevel, nops, settled, latest>>

\* ---- specifications ----

\* the database and the event loop at work on the suspended calls
Step ==
    \/ CreateTableDb
    \/ InitResume
    \/ GetDb
    \/ GetResume
    \/ StoreDb
    \/ StoreResume
    \/ PurgeDb
    \/ PurgeResume

Call(limit) ==
    \/ InitCall(limit)
    \/ GetCall(limit)
    \/ StoreCall(limit)
    \/ PurgeCall(limit)

\* the application may have up to MaxInFlight calls pending at once
Next == Call(MaxInFlight) \/ Step \/ Construct \/ GuildUpdate

Spec == Init /\ [][Next]_vars

\* the application awaits each call before it makes the next one
SeqNext == Call(1) \/ Step \/ Construct \/ GuildUpdate

SeqSpec == Init /\ [][SeqNext]_vars

\* an application that only looks levels up, up to MaxInFlight lookups at once
LookupNext ==
    \/ InitCall(MaxInFlight)
    \/ GetCall(MaxInFlight)
    \/ CreateTableDb
    \/ InitResume
    \/ GetDb
    \/ GetResume
    \/ StoreDb
    \/ StoreResume
    \/ GuildUpdate

LookupSpec == Init /\ [][LookupNext]_vars

\* the coordinator at work: the controller is called by the message handler
\* only, one message being handled up to its un-awaited storeLevel before the
\* next
MsgNext ==
    \/ InitCall(1)
    \/ OnMessage(1)
    \/ CreateTableDb
    \/ InitResume
    \/ GetDb
    \/ OnMessageResume
    \/ StoreDb
    \/ StoreResume
    \/ GuildUpdate

MsgSpec == Init /\ [][MsgNext]_vars

TypeOK ==
    /\ initialized \in BOOLEAN
    /\ tableExists \in BOOLEAN
    /\ DOMAIN localCache \subseteq Keys
    /\ \A k \in DOMAIN localCache : localCache[k] \in VerificationLevel
    /\ \A i \in 1..Len(rows) : rows[i].level \in VerificationLevel
    /\ nops \in 0..MaxOps

\* ---- properties ----

Enabled(member) == guildLevel[member.guild] # NONE

HoldsRow(member, level) ==
    \E i \in 1..Len(rows) :
        rows[i] = [guildId |-> member.guild, memberId |-> member.id, level |-> level]

\* C1 -- read-your-write: storeLevel(m, t) having completed on this controller,
\* the next getVerificationLevel(m) (guild enabled, default role only) returns t.
ReadYourWrite ==
    (/\ ret.op = "get" /\ ret.kind # "none"
     /\ Enabled(ret.member) /\ ret.roles = 1
     /\ ret.after.op = "store" /\ ret.after.here)
    => (ret.kind = "return" /\ ret.val = <<ret.after.level>>)

\* C2 -- default on miss: a getVerificationLevel that found neither a cache
\* entry nor a record returns NONE, and when it has returned the table holds
\* a record of level NONE for the member and the cache holds NONE for its key.
DefaultOnMiss ==
    (ret.op = "get" /\ ret.kind = "return" /\ ret.path = "default")
    => (/\ ret.val = <<NONE>>
        /\ HoldsRow(ret.member, NONE)
        /\ checkInLocalStorage(getLocalStorageKey(ret.member)) = <<NONE>>)

\* C3 -- purge clears both layers: when purgeLevel(m) has completed no row
\* matches m and the cache has no entry for m's key, and the next
\* getVerificationLevel(m) takes the default-on-miss path and returns NONE.
PurgeClearsBothLayers ==
    /\ (ret.op = "purge" /\ ret.kind = "return")
       => (/\ MatchingRows(ret.member) = <<>>
           /\ checkInLocalStorage(getLocalStorageKey(ret.member)) = <<>>)
    /\ (/\ ret.op = "get" /\ ret.kind = "return"
        /\ Enabled(ret.member) /\ ret.roles = 1
        /\ ret.after.op = "purge" /\ ret.after.here)
       => (ret.path = "default" /\ ret.val = <<NONE>>)

\* C4 -- event firing: a storeLevel(m, t) that completes emits exactly one
\* "verified" event (m, t) when t is the guild's verificationLevel and none
\* otherwise; a purgeLevel(m) that completes emits exactly one "purged" event
\* (m); nothing else emits.
EventFiring ==
    /\ (ret.op = "store" /\ ret.kind = "return")
       => emitted = IF ret.level = guildLevel[ret.member.guild]
                    THEN <<[event |-> "verified", member |-> ret.member, level |-> ret.level]>>
                    ELSE <<>>
    /\ (ret.op = "purge" /\ ret.kind = "return")
       => emitted = <<[event |-> "purged", member |-> ret.member]>>
    /\ ~(ret.op \in {"store", "purge"} /\ (ret.kind = "return" \/ ret.err = "ListenerError"))
       => emitted = <<>>

\* a storeLevel of the application has completed and announced "verified"
EventFiringWitness ==
    /\ ret.op = "store" /\ ret.kind = "return" /\ ~ret.detached
    /\ Len(emitted) = 1

\* C5 -- SKIPPED never persisted: on an initialized controller
\* storeLevel(m, SKIPPED) throws the invalid-level error and leaves the table,
\* the cache and the pending database work as they were, emitting nothing.
SkippedNeverPersisted ==
    [][(call'.op = "store" /\ call'.level = SKIPPED /\ initialized)
       => (/\ ret'.kind = "throw" /\ ret'.err = "InvalidTier"
           /\ UNCHANGED <<rows, localCache, tasks>>
           /\ emitted' = <<>>)]_vars

\* storeLevel(m, SKIPPED) was refused while the table held rows
SkippedNeverPersistedWitness ==
    /\ call.op = "store" /\ call.level = SKIPPED
    /\ ret.err = "InvalidTier"
    /\ rows # <<>>

\* C6 -- guard clause: on a controller that is not initialized every
\* getVerificationLevel, storeLevel and purgeLevel call throws the
\* not-initialized error, hands nothing to the database, and leaves the cache
\* and the table as they were, emitting nothing.
GuardClause ==
    [][(call'.op \in {"get", "store", "purge"} /\ ~initialized)
       => (/\ ret'.kind = "throw" /\ ret'.err = "NotInitialized"
           /\ UNCHANGED <<rows, localCache, tasks, tableExists, initialized>>
           /\ emitted' = <<>>)]_vars

\* storeLevel(m, SKIPPED) in a disabled guild was refused by the guard of a
\* fresh controller over a table that holds rows
GuardClauseWitness ==
    /\ call.op = "store" /\ call.level = SKIPPED
    /\ ~Enabled(call.member)
    /\ ret.err = "NotInitialized"
    /\ rows # <<>>

\* C7 -- one-shot initialization: init() on an initialized controller throws
\* the already-initialized error, asks for no table creation and leaves the
\* instance initialized.
OneShotInit ==
    [][(call'.op = "init" /\ initialized)
       => (/\ ret'.kind = "throw" /\ ret'.err = "AlreadyInitialized"
           /\ UNCHANGED <<initialized, tableExists, tasks, rows, localCache>>)]_vars

\* a second init() was refused
OneShotInitWitness ==
    /\ call.op = "init" /\ ret.err = "AlreadyInitialized"
    /\ initialized

OneRecordPerKey ==
    \A member \in Members : Len(MatchingRows(member)) <= 1

\* C10 -- last write wins in the table: storeLevel(m, a) and then
\* storeLevel(m, b) having completed, a getVerificationLevel(m) that misses the
\* cache and reads the record from the table returns b.
LastWriteWins ==
    (/\ ret.op = "get" /\ ret.kind = "return" /\ ret.path = "db"
     /\ ret.after.op = "store" /\ ret.after.twice)
    => ret.val = <<ret.after.level>>

\* C11 -- cache coherence: whenever the cache holds an entry for a key, its
\* value is the level this instance wrote or read last for that key, also when
\* getVerificationLevel, storeLevel and purgeLevel calls on the key overlap.
\* Stated for the keys the table holds at most one row for, where what a
\* lookup reads does not depend on which of two records comes first.
CacheCoherence ==
    \A member \in Members :
        LET k == getLocalStorageKey(member) IN
        (k \in DOMAIN localCache /\ Len(MatchingRows(member)) <= 1)
        => latest[k] = <<localCache[k]>>

\* C12 -- failed writes do not mutate the cache: a storeLevel whose insert
\* failed, or a purgeLevel whose delete failed, throws the storage error, leaves
\* the cache as it was and emits no event.
FailedWriteKeepsCache ==
    [][\A t \in Suspended :
          (/\ t.op \in {"store", "purge"} /\ t.pc = "resume" /\ ~t.ok
           /\ tasks' = Settle(t))
          => (/\ ret'.kind = "throw" /\ ret'.err = "StorageFailure"
              /\ ret'.op = t.op /\ ret'.member = t.member
              /\ UNCHANGED <<localCache, rows>>
              /\ emitted' = <<>>)]_vars

\* a storeLevel of the guild's level failed in the database while the cache
\* held another level for the member
FailedWriteKeepsCacheWitness ==
    /\ ret.op = "store" /\ ret.err = "StorageFailure" /\ ~ret.detached
    /\ ret.level = guildLevel[ret.member.guild]
    /\ getLocalStorageKey(ret.member) \in DOMAIN localCache
    /\ localCache[getLocalStorageKey(ret.member)] # ret.level

\* C13 -- getVerificationLevel propagates storage failures: a storage failure
\* in the work done for a lookup (its query, or the insert of the default NONE
\* record) is thrown by the lookup to its caller; none is left in a promise
\* that nobody awaits after the lookup has returned a level.
GetPropagatesStorageFailures ==
    (/\ ret.kind = "throw" /\ ret.err = "StorageFailure"
     /\ (ret.op = "get" \/ ret.detached))
    => (ret.op = "get" /\ ~ret.detached)

\* C14 -- disabled-guild short-circuit: on an initialized controller a
\* getVerificationLevel for a member of a guild whose verificationLevel is 0
\* returns NONE whatever the roles, the cache entry and the records are, hands
\* nothing to the database, leaves cache and table as they were and emits
\* nothing.
DisabledShortCircuit ==
    [][(call'.op = "get" /\ initialized /\ guildLevel[call'.member.guild] = NONE)
       => (/\ ret'.kind = "return" /\ ret'.op = "get" /\ ret'.val = <<NONE>>
           /\ UNCHANGED <<rows, localCache, tasks>>
           /\ emitted' = <<>>)]_vars

\* a lookup in a disabled guild returned NONE for a member with a second role
\* whose cache entry and record say HIGH
DisabledShortCircuitWitness ==
    /\ call.op = "get" /\ call.roles = 2
    /\ guildLevel[call.member.guild] = NONE
    /\ ret.kind = "return" /\ ret.val = <<NONE>>
    /\ checkInLocalStorage(getLocalStorageKey(call.member)) = <<HIGH>>
    /\ HoldsRow(call.member, HIGH)

\* C15 -- role short-circuit: on an initialized controller, the guild asking
\* for verification, every getVerificationLevel for a member with two or more
\* roles returns SKIPPED whatever the cache and the table hold and leaves both
\* as they were; the roles are looked at in every call, so the lookup made next,
\* the member back to one role, returns the cached level, or asks the table
\* when the cache has none.
RoleShortCircuit ==
    /\ [][(/\ call'.op = "get" /\ initialized
           /\ guildLevel[call'.member.guild] # NONE /\ call'.roles > 1)
          => (/\ ret'.kind = "return" /\ ret'.op = "get" /\ ret'.val = <<SKIPPED>>
              /\ UNCHANGED <<rows, localCache, tasks>>
              /\ emitted' = <<>>)]_vars
    /\ [][(/\ call'.op = "get" /\ initialized
           /\ guildLevel[call'.member.guild] # NONE /\ call'.roles = 1
           /\ After(call'.member).op = "skipped")
          => IF getLocalStorageKey(call'.member) \in DOMAIN localCache
             THEN /\ ret'.kind = "return"
                  /\ ret'.val = <<localCache[getLocalStorageKey(call'.member)]>>
                  /\ UNCHANGED <<rows, localCache, tasks>>
             ELSE /\ ret'.kind = "none"
                  /\ tasks' = Suspend(Task("get", call'.member, NONE, 1, FALSE,
                                            After(call'.member)))]_vars

\* the lookup after a SKIPPED one returned the stored level HIGH
RoleShortCircuitWitness ==
    /\ ret.op = "get" /\ ret.kind = "return" /\ ret.roles = 1
    /\ ret.after.op = "skipped"
    /\ ret.val = <<HIGH>>
    /\ HoldsRow(ret.member, HIGH)

\* C16 -- listener isolation: when a listener of "verified" or "purged" throws
\* during the emit, every other subscribed listener is invoked all the same and
\* the storeLevel / purgeLevel that emitted completes without an error.
ListenerIsolation ==
    heard.threw # "" => (heard.invoked = Listeners /\ ret.kind = "return")

\* C17 -- SKIPPED is never held: whatever calls were made and however they
\* interleaved, no row of the table and no cache entry has the level SKIPPED,
\* although getVerificationLevel may return SKIPPED.
SkippedNeverHeld ==
    /\ \A i \in 1..Len(rows) : rows[i].level # SKIPPED
    /\ \A k \in DOMAIN localCache : localCache[k] # SKIPPED

\* a lookup returned SKIPPED for a member the table and the cache hold a
\* level for
SkippedNeverHeldWitness ==
    /\ ret.op = "get" /\ ret.kind = "return" /\ ret.val = <<SKIPPED>>
    /\ MatchingRows(ret.member) # <<>>
    /\ getLocalStorageKey(ret.member) \in DOMAIN localCache

\* C18 -- concurrent cold misses duplicate the default: every lookup that
\* resumes with no record found returns NONE and hands the database an insert
\* of NONE of its own, whether or not another lookup for the key did so before,
\* and every insert the database executes adds a row; so two lookups for one
\* key that both missed the cache and both found no record both return NONE
\* and leave two rows for the key.
ColdMissesDuplicate ==
    /\ [][\A t \in Suspended :
             (/\ t.op = "get" /\ t.pc = "resume" /\ t.ok /\ t.data = <<>>
              /\ ret'.op = "get" /\ ret'.path = "default"
              /\ ret'.member = t.member /\ ret'.after = t.after)
             => (/\ ret'.kind = "return" /\ ret'.val = <<NONE>>
                 /\ tasks' = Settle(t) (+)
                              SetToBag({Task("store", t.member, NONE, 0, TRUE, NoneSettled)}))]_vars
    /\ [][\A t \in Suspended :
             (/\ t.op = "store" /\ t.pc = "db"
              /\ tasks' = Advance(t, [t EXCEPT !.pc = "resume", !.ok = TRUE]))
             => rows' = Append(rows, [guildId |-> t.member.guild, memberId |-> t.member.id,
                                      level |-> t.level])]_vars

\* two lookups for one key have both missed the cache and both been answered
\* that the table holds no record
ColdMissesDuplicateWitness ==
    \E t \in Suspended :
        /\ t.op = "get" /\ t.pc = "resume" /\ t.ok /\ t.data = <<>>
        /\ CopiesIn(t, tasks) = 2
        /\ rows = <<>>
        /\ localCache = EmptyCache

\* C20 -- lookups never announce verification: no getVerificationLevel call
\* causes a "verified" event: the lookup's own steps emit nothing, and the
\* storeLevel of the default NONE record that a lookup starts emits nothing.
LookupsNeverAnnounce ==
    /\ ret.op = "get" => emitted = <<>>
    /\ (ret.op = "store" /\ ret.detached) => emitted = <<>>

\* C20, as the code has it: the lookup's own steps emit nothing; the storeLevel
\* of the default record stores NONE and emits "verified" (member, NONE) exactly
\* when its insert succeeded and the guild's verificationLevel is 0 by the time
\* it resumes, so no lookup announces anything while the level stays above 0.
LookupAnnouncesOnlyWhenDisabled ==
    /\ ret.op = "get" => emitted = <<>>
    /\ (ret.op = "store" /\ ret.detached)
       => /\ ret.level = NONE
          /\ emitted = IF ret.err # "StorageFailure" /\ guildLevel[ret.member.guild] = NONE
                       THEN <<[event |-> "verified", member |-> ret.member, level |-> NONE]>>
                       ELSE <<>>

\* the default record's storeLevel resumed after the guild's level had been
\* set to 0, and emitted "verified"
LookupAnnouncesOnlyWhenDisabledWitness ==
    /\ ret.op = "store" /\ ret.detached /\ ret.kind = "return"
    /\ emitted = <<[event |-> "verified", member |-> ret.member, level |-> NONE]>>

\* C19 -- message handling converges to verified: _onMessage having handled a
\* message of a member with one role in a guild of level L > 0 that had no
\* record, and the inserts it started (the default NONE and L) having
\* completed, the controller holds L for the member: a lookup returns L from
\* the cache, so that a further message finds the member verified and stores
\* nothing.
MessageConverges ==
    \A member \in Members :
        LET L == guildLevel[member.guild] IN
        (/\ initialized /\ L # NONE /\ tasks = EmptyBag
         /\ Len(MatchingRows(member)) = 2
         /\ HoldsRow(member, NONE) /\ HoldsRow(member, L))
        => checkInLocalStorage(getLocalStorageKey(member)) = <<L>>

====
